---- MODULE Spec2Model ----
(***************************************************************************)
(* Model of three components of the gestalt component library:             *)
(*   - IconButtonEnd (packages/gestalt/src/TextField/IconButtonEnd.tsx)    *)
(*   - Checkbox      (second half of the same source file)                 *)
(*   - DatePicker    (packages/gestalt-datepicker/src/DatePicker.tsx)      *)
(* Each component instance is a small state machine: its props, its        *)
(* useState cells, the output of its last render, and the observable       *)
(* calls it made to the caller's callbacks during the last user action.    *)
(***************************************************************************)
EXTENDS Integers, Sequences, FiniteSets, TLC

VARIABLES
    \* ---- IconButtonEnd ----
    hoverStyle,            \* prop, optional: <<>> when omitted, <<"default">>, <<"none">>
    accessibilityHidden,   \* prop, optional boolean: <<>>, <<TRUE>>, <<FALSE>>
    focused,               \* useState(false)
    domFocus,              \* environment: the tap area holds DOM focus
    pointerInside,         \* environment: the pointer is inside the tap area
    ibePc,                 \* "idle", or "keydown" while a key-down awaits its default action
    ibeEvent,              \* the last event dispatched to the tap area
    keyCode,               \* event.keyCode of the last key event, 0 when none
    defaultPrevented,      \* event.defaultPrevented of the last key-down
    onClickCalls,          \* calls of the caller's onClick made by the current user action
    ibeView,               \* output of the last render of IconButtonEnd
    \* ---- DatePicker ----
    disableMobileUI,       \* prop, optional boolean
    disabled,              \* prop, optional boolean
    deviceType,            \* useDeviceType(): "desktop" or "mobile"
    showMobileCalendar,    \* useState<boolean>(false)
    sheetAnimation,        \* SheetMobile: "none" (not mounted), "in" (shown), "out" (dismissing)
    popoverOpen,           \* InternalDatePicker: the field's own calendar popover is open
    dpEvent,               \* the last event the DatePicker handled
    onChangeCalls,         \* calls of the caller's onChange made by the last event
    dpView,                \* output of the last render of DatePicker
    \* ---- Checkbox ----
    cbProps,               \* the props the caller passes, each optional
    cbRef,                 \* the forwarded ref
    isInVRExperiment,      \* useInExperiment(...)
    cbView                 \* output of the last render of Checkbox: the elements returned

ibeVars == <<hoverStyle, accessibilityHidden, focused, domFocus, pointerInside,
             ibePc, ibeEvent, keyCode, defaultPrevented, onClickCalls, ibeView>>

dpVars == <<disableMobileUI, disabled, deviceType, showMobileCalendar, sheetAnimation,
            popoverOpen, dpEvent, onChangeCalls, dpView>>

cbVars == <<cbProps, cbRef, isInVRExperiment, cbView>>

vars == <<ibeVars, dpVars, cbVars>>

(***************************************************************************)
(* Optional props: <<>> is an omitted prop, <<v>> a supplied value v.      *)
(***************************************************************************)
Omitted == <<>>

Some(v) == <<v>>

OptBool == {Omitted, Some(TRUE), Some(FALSE)}

\* JavaScript default parameter value: `p = d` in a destructuring pattern.
Default(p, d) == IF p = Omitted THEN d ELSE p[1]

\* JavaScript truthiness of an optional boolean.
Truthy(p) == p # Omitted /\ p[1]

(***************************************************************************)
(* Key codes (../keyCodes).                                                *)
(***************************************************************************)
TAB == 9

ENTER == 13

SPACE == 32

\* Escape and the letter A stand for "any other key".
OtherKeys == {27, 65}

Keys == {TAB, ENTER, SPACE} \cup OtherKeys

(***************************************************************************)
(* IconButtonEnd: the handlers passed to TapArea, and the render.          *)
(***************************************************************************)

\* Variant of OnKeyDownClicks: Space is left out of the activation keys.
OnKeyDownClicksEnterOnly(k) == IF k = ENTER THEN 1 ELSE 0

\* onKeyDown, first statement: the number of onClick() calls it makes.
OnKeyDownClicks(k) == IF k \in {ENTER, SPACE} THEN 1 ELSE 0

\* Variant of OnKeyDownPreventsDefault: the Tab test is missing.
OnKeyDownAlwaysPreventsDefault(k) == k = k

\* Variant of OnKeyDownPreventsDefault: only the activation keys are suppressed.
OnKeyDownPreventsActivationKeysOnly(k) == k \in {ENTER, SPACE}

\* Variant of OnKeyDownPreventsDefault: preventDefault() is never called.
OnKeyDownNeverPreventsDefault(k) == k # k

\* onKeyDown, second statement: whether event.preventDefault() is called.
OnKeyDownPreventsDefault(k) == k # TAB

\* onTap={onClick}: the number of onClick() calls one tap makes.
OnTapClicks == 1

\* onFocus / onMouseEnter: the value given to setFocused.
OnFocus == TRUE

OnMouseEnter == TRUE

\* onBlur / onMouseLeave: the value given to setFocused.
OnBlur == FALSE

OnMouseLeave == FALSE

HoverStyle(p) == Default(p, "default")

\* Variant of TabIndex: the tap area stays in the tab order.
TabIndexAlwaysZero(hidden) == IF Truthy(hidden) THEN 0 ELSE 0

TabIndex(hidden) == IF Truthy(hidden) THEN -1 ELSE 0

\* Variant of BgColor: the hoverStyle test is missing.
BgColorIgnoresHoverStyle(f, hs) == IF f THEN "lightGray" ELSE "transparent"

BgColor(f, hs) == IF f /\ HoverStyle(hs) = "default" THEN "lightGray" ELSE "transparent"

RenderIconButtonEnd(hidden, hs, f) ==
    [ariaHidden |-> hidden, tabIndex |-> TabIndex(hidden), bgColor |-> BgColor(f, hs)]

(***************************************************************************)
(* TapArea and the browser, as far as IconButtonEnd depends on them.       *)
(***************************************************************************)

\* TapArea turns a key-press of Enter or Space into a tap (onTap).
TapAreaKeyPressTaps(k) == k \in {ENTER, SPACE}

\* The browser dispatches the key-press that follows a key-down only when the
\* key-down's default action was not prevented.
KeyPressFollows(prevented) == ~prevented

IBEInit ==
    /\ hoverStyle \in {Omitted, Some("default"), Some("none")}
    /\ accessibilityHidden \in OptBool
    /\ focused = FALSE
    /\ domFocus = FALSE
    /\ pointerInside = FALSE
    /\ ibePc = "idle"
    /\ ibeEvent = "none"
    /\ keyCode = 0
    /\ defaultPrevented = FALSE
    /\ onClickCalls = 0
    /\ ibeView = RenderIconButtonEnd(accessibilityHidden, hoverStyle, FALSE)

\* setFocused(v) followed by the re-render it schedules.
SetFocused(v) ==
    /\ focused' = v
    /\ ibeView' = RenderIconButtonEnd(accessibilityHidden, hoverStyle, v)

IBEFocus ==
    /\ ibePc = "idle"
    /\ ~domFocus
    /\ domFocus' = TRUE
    /\ SetFocused(OnFocus)
    /\ ibeEvent' = "focus"
    /\ keyCode' = 0
    /\ onClickCalls' = 0
    /\ UNCHANGED <<hoverStyle, accessibilityHidden, pointerInside, ibePc, defaultPrevented>>
    /\ UNCHANGED <<dpVars, cbVars>>

IBEBlur ==
    /\ ibePc = "idle"
    /\ domFocus
    /\ domFocus' = FALSE
    /\ SetFocused(OnBlur)
    /\ ibeEvent' = "blur"
    /\ keyCode' = 0
    /\ onClickCalls' = 0
    /\ UNCHANGED <<hoverStyle, accessibilityHidden, pointerInside, ibePc, defaultPrevented>>
    /\ UNCHANGED <<dpVars, cbVars>>

IBEMouseEnter ==
    /\ ibePc = "idle"
    /\ ~pointerInside
    /\ pointerInside' = TRUE
    /\ SetFocused(OnMouseEnter)
    /\ ibeEvent' = "mouseenter"
    /\ keyCode' = 0
    /\ onClickCalls' = 0
    /\ UNCHANGED <<hoverStyle, accessibilityHidden, domFocus, ibePc, defaultPrevented>>
    /\ UNCHANGED <<dpVars, cbVars>>

IBEMouseLeave ==
    /\ ibePc = "idle"
    /\ pointerInside
    /\ pointerInside' = FALSE
    /\ SetFocused(OnMouseLeave)
    /\ ibeEvent' = "mouseleave"
    /\ keyCode' = 0
    /\ onClickCalls' = 0
    /\ UNCHANGED <<hoverStyle, accessibilityHidden, domFocus, ibePc, defaultPrevented>>
    /\ UNCHANGED <<dpVars, cbVars>>

\* A pointer tap on the tap area: TapArea calls onTap once.
IBETap ==
    /\ ibePc = "idle"
    /\ ibeEvent' = "tap"
    /\ keyCode' = 0
    /\ onClickCalls' = OnTapClicks
    /\ UNCHANGED <<hoverStyle, accessibilityHidden, focused, domFocus, pointerInside,
                   ibePc, defaultPrevented, ibeView>>
    /\ UNCHANGED <<dpVars, cbVars>>

\* A key-down reaches the tap area: TapArea forwards it to onKeyDown.
IBEKeyDown(k) ==
    /\ ibePc = "idle"
    /\ ibePc' = "keydown"
    /\ ibeEvent' = "keydown"
    /\ keyCode' = k
    /\ onClickCalls' = OnKeyDownClicks(k)
    /\ defaultPrevented' = OnKeyDownPreventsDefault(k)
    /\ UNCHANGED <<hoverStyle, accessibilityHidden, focused, domFocus, pointerInside, ibeView>>
    /\ UNCHANGED <<dpVars, cbVars>>

\* The browser's default action for the key-down just handled: the key-press
\* of Enter/Space (which TapArea turns into a tap), or Tab's focus traversal.
IBEKeyDefault ==
    /\ ibePc = "keydown"
    /\ ibePc' = "idle"
    /\ IF KeyPressFollows(defaultPrevented) /\ TapAreaKeyPressTaps(keyCode)
       THEN /\ ibeEvent' = "keypress"
            /\ onClickCalls' = onClickCalls + OnTapClicks
            /\ UNCHANGED <<focused, domFocus, ibeView>>
       ELSE IF ~defaultPrevented /\ keyCode = TAB /\ domFocus
       THEN /\ ibeEvent' = "blur"
            /\ domFocus' = FALSE
            /\ SetFocused(OnBlur)
            /\ UNCHANGED onClickCalls
       ELSE UNCHANGED <<ibeEvent, onClickCalls, focused, domFocus, ibeView>>
    /\ UNCHANGED <<hoverStyle, accessibilityHidden, pointerInside, keyCode, defaultPrevented>>
    /\ UNCHANGED <<dpVars, cbVars>>

(***************************************************************************)
(* DatePicker: the render.                                                 *)
(***************************************************************************)

\* `disableMobileUI = false` in the destructured props.
DisableMobileUI(p) == Default(p, FALSE)

IsMobile(d) == d = "mobile"

\* Variant of MobileBranch: the disableMobileUI test is missing.
MobileBranchIgnoresProp(d, dmui) == IsMobile(d)

\* if (isMobile && !disableMobileUI)
MobileBranch(d, dmui) == IsMobile(d) /\ ~DisableMobileUI(dmui)

\* Variant of MobileFieldProps: inputOnly is not passed.
MobileFieldPropsNoInputOnly(dis) ==
    [disabled |-> dis, inputOnly |-> FALSE, inline |-> FALSE, onFocus |-> TRUE, onSelect |-> FALSE]

\* The props the mobile branch gives the field: disabled, inputOnly, onFocus.
MobileFieldProps(dis) ==
    [disabled |-> dis, inputOnly |-> TRUE, inline |-> FALSE, onFocus |-> TRUE, onSelect |-> FALSE]

\* The props the sheet gives its calendar: inline and onSelect, no `disabled`.
SheetCalendarProps ==
    [disabled |-> Omitted, inputOnly |-> FALSE, inline |-> TRUE, onFocus |-> FALSE, onSelect |-> TRUE]

\* Variant of DesktopFieldProps: the default branch passes the onFocus handler too.
DesktopFieldPropsWithOnFocus(dis) ==
    [disabled |-> dis, inputOnly |-> FALSE, inline |-> FALSE, onFocus |-> TRUE, onSelect |-> FALSE]

\* The props the default branch gives the field: disabled, no onFocus, no inputOnly.
DesktopFieldProps(dis) ==
    [disabled |-> dis, inputOnly |-> FALSE, inline |-> FALSE, onFocus |-> FALSE, onSelect |-> FALSE]

\* {showMobileCalendar ? <Layer><SheetMobile>...</SheetMobile></Layer> : null}
SheetElement(show) == IF show THEN <<SheetCalendarProps>> ELSE <<>>

RenderDatePicker(d, dmui, dis, show) ==
    IF MobileBranch(d, dmui)
    THEN [branch |-> "mobile", field |-> MobileFieldProps(dis), sheet |-> SheetElement(show)]
    ELSE [branch |-> "desktop", field |-> DesktopFieldProps(dis), sheet |-> <<>>]

\* Variant of OnFocusShow: the focus handler toggles the state.
OnFocusToggles == ~showMobileCalendar

\* onFocus={() => setShowMobileCalendar(true)}
OnFocusShow == TRUE

\* Variant of OnDismissShow: the dismiss handler leaves the state set.
OnDismissKeepsShow == TRUE

\* onDismiss={() => setShowMobileCalendar(false)}
OnDismissShow == FALSE

\* onSelect={() => onDismissStart()} and the dismiss button's
\* onClick={() => onDismissStart()}: whether the handler starts the dismissal.
OnSelectDismisses == TRUE

OnDismissButtonDismisses == TRUE

\* onChange={onChange}: the caller's onChange receives each selection once.
OnChangeForwarded == 1

SheetRendered(v) == v.sheet # <<>>

(***************************************************************************)
(* InternalDatePicker and SheetMobile, as far as DatePicker depends on     *)
(* them.                                                                   *)
(***************************************************************************)

\* A disabled input cannot receive focus.
InputFocusable(p) == ~Truthy(p.disabled)

\* The calendar of an InternalDatePicker instance is on screen and accepts a
\* selection: always for an inline instance, never for an input-only one,
\* and otherwise while its popover is open and it is not disabled.
CalendarSelectable(p, open) ==
    /\ ~Truthy(p.disabled)
    /\ IF p.inline THEN TRUE ELSE IF p.inputOnly THEN FALSE ELSE open

\* The calendar of an InternalDatePicker instance is on screen: always for an
\* inline instance, never for an input-only one, otherwise while its popover
\* is open.
CalendarShown(p, open) ==
    IF p.inline THEN TRUE ELSE IF p.inputOnly THEN FALSE ELSE open

\* SheetMobile's animation state after a render: a sheet that appears plays
\* its "in" animation, one that stays keeps its state, one that goes is gone.
NextAnimation(was, is, anim) ==
    IF ~is THEN "none" ELSE IF ~was THEN "in" ELSE anim

\* onDismissStart(): the sheet starts its "out" animation.
DismissStart(dismisses, anim) == IF dismisses THEN "out" ELSE anim

DPInit ==
    /\ disableMobileUI \in OptBool
    /\ disabled \in OptBool
    /\ deviceType \in {"desktop", "mobile"}
    /\ showMobileCalendar = FALSE
    /\ sheetAnimation = "none"
    /\ popoverOpen = FALSE
    /\ dpEvent = "none"
    /\ onChangeCalls = 0
    /\ dpView = RenderDatePicker(deviceType, disableMobileUI, disabled, FALSE)

\* The re-render after props, device type or state changed, with what it
\* does to the sheet's animation state and to the field's popover. When the
\* branch changes the field element keeps its type and position, so the same
\* InternalDatePicker instance receives the new props: whether it then keeps
\* or resets its popover state is InternalDatePicker's choice, and both
\* outcomes are allowed.
DPRender(d, dmui, dis, show, open) ==
    /\ dpView' = RenderDatePicker(d, dmui, dis, show)
    /\ sheetAnimation' = NextAnimation(SheetRendered(dpView), SheetRendered(dpView'), sheetAnimation)
    /\ popoverOpen' \in (IF dpView'.branch = dpView.branch THEN {open} ELSE {open, FALSE})

\* The input field receives focus.
DPFocusInput ==
    /\ InputFocusable(dpView.field)
    /\ showMobileCalendar' = IF dpView.field.onFocus THEN OnFocusShow ELSE showMobileCalendar
    /\ DPRender(deviceType, disableMobileUI, disabled, showMobileCalendar',
                IF dpView.field.inputOnly THEN popoverOpen ELSE TRUE)
    /\ dpEvent' = "focus"
    /\ onChangeCalls' = 0
    /\ UNCHANGED <<disableMobileUI, disabled, deviceType>>
    /\ UNCHANGED <<ibeVars, cbVars>>

\* The user taps the dismiss button in the sheet's footer.
DPTapDismiss ==
    /\ SheetRendered(dpView)
    /\ sheetAnimation' = DismissStart(OnDismissButtonDismisses, sheetAnimation)
    /\ dpEvent' = "dismiss"
    /\ onChangeCalls' = 0
    /\ UNCHANGED <<disableMobileUI, disabled, deviceType, showMobileCalendar, popoverOpen, dpView>>
    /\ UNCHANGED <<ibeVars, cbVars>>

\* The user selects a date in the sheet's inline calendar.
DPSelectInSheet ==
    /\ SheetRendered(dpView)
    /\ CalendarSelectable(dpView.sheet[1], FALSE)
    /\ onChangeCalls' = OnChangeForwarded
    /\ sheetAnimation' = DismissStart(dpView.sheet[1].onSelect /\ OnSelectDismisses, sheetAnimation)
    /\ dpEvent' = "sheetSelect"
    /\ UNCHANGED <<disableMobileUI, disabled, deviceType, showMobileCalendar, popoverOpen, dpView>>
    /\ UNCHANGED <<ibeVars, cbVars>>

\* The sheet's "out" animation ends: SheetMobile calls onDismiss.
DPAnimationEnd ==
    /\ SheetRendered(dpView)
    /\ sheetAnimation = "out"
    /\ showMobileCalendar' = OnDismissShow
    /\ dpView' = RenderDatePicker(deviceType, disableMobileUI, disabled, showMobileCalendar')
    /\ sheetAnimation' = IF SheetRendered(dpView') THEN "in" ELSE "none"
    /\ dpEvent' = "animationEnd"
    /\ onChangeCalls' = 0
    /\ UNCHANGED <<disableMobileUI, disabled, deviceType, popoverOpen>>
    /\ UNCHANGED <<ibeVars, cbVars>>

\* The user selects a date in the field's own popover calendar.
DPSelectInPopover ==
    /\ CalendarSelectable(dpView.field, popoverOpen)
    /\ onChangeCalls' = OnChangeForwarded
    /\ popoverOpen' = FALSE
    /\ dpEvent' = "popoverSelect"
    /\ UNCHANGED <<disableMobileUI, disabled, deviceType, showMobileCalendar, sheetAnimation, dpView>>
    /\ UNCHANGED <<ibeVars, cbVars>>

\* The field's popover closes without a selection (click outside, Escape).
DPClosePopover ==
    /\ popoverOpen
    /\ popoverOpen' = FALSE
    /\ dpEvent' = "popoverClose"
    /\ onChangeCalls' = 0
    /\ UNCHANGED <<disableMobileUI, disabled, deviceType, showMobileCalendar, sheetAnimation, dpView>>
    /\ UNCHANGED <<ibeVars, cbVars>>

\* useDeviceType() returns another device type (viewport change): re-render.
DPSetDeviceType(d) ==
    /\ d # deviceType
    /\ deviceType' = d
    /\ DPRender(d, disableMobileUI, disabled, showMobileCalendar, popoverOpen)
    /\ dpEvent' = "deviceType"
    /\ onChangeCalls' = 0
    /\ UNCHANGED <<disableMobileUI, disabled, showMobileCalendar>>
    /\ UNCHANGED <<ibeVars, cbVars>>

\* The caller re-renders DatePicker with another disableMobileUI.
DPSetDisableMobileUI(v) ==
    /\ v # disableMobileUI
    /\ disableMobileUI' = v
    /\ DPRender(deviceType, v, disabled, showMobileCalendar, popoverOpen)
    /\ dpEvent' = "props"
    /\ onChangeCalls' = 0
    /\ UNCHANGED <<disabled, deviceType, showMobileCalendar>>
    /\ UNCHANGED <<ibeVars, cbVars>>

\* The caller re-renders DatePicker with another disabled.
DPSetDisabled(v) ==
    /\ v # disabled
    /\ disabled' = v
    /\ DPRender(deviceType, disableMobileUI, v, showMobileCalendar, popoverOpen)
    /\ dpEvent' = "props"
    /\ onChangeCalls' = 0
    /\ UNCHANGED <<disableMobileUI, deviceType, showMobileCalendar>>
    /\ UNCHANGED <<ibeVars, cbVars>>

(***************************************************************************)
(* Checkbox: the render.                                                   *)
(***************************************************************************)

\* Variant of VRInternalCheckboxProps: indeterminate is not forwarded.
VRInternalCheckboxPropsNoIndeterminate(p, r) ==
    [ref |-> r,
     checked |-> Default(p.checked, FALSE),
     disabled |-> Default(p.disabled, FALSE),
     errorMessage |-> p.errorMessage,
     helperText |-> p.helperText,
     id |-> p.id,
     image |-> p.image,
     indeterminate |-> FALSE,
     label |-> p.label,
     labelDisplay |-> Default(p.labelDisplay, "visible"),
     name |-> p.name,
     onChange |-> p.onChange,
     onClick |-> p.onClick,
     size |-> Default(p.size, "md")]

\* The props of the <VRInternalCheckbox> element.
VRInternalCheckboxProps(p, r) ==
    [ref |-> r,
     checked |-> Default(p.checked, FALSE),
     disabled |-> Default(p.disabled, FALSE),
     errorMessage |-> p.errorMessage,
     helperText |-> p.helperText,
     id |-> p.id,
     image |-> p.image,
     indeterminate |-> Default(p.indeterminate, FALSE),
     label |-> p.label,
     labelDisplay |-> Default(p.labelDisplay, "visible"),
     name |-> p.name,
     onChange |-> p.onChange,
     onClick |-> p.onClick,
     size |-> Default(p.size, "md")]

\* The props of the <InternalCheckbox> element.
InternalCheckboxProps(p, r) ==
    [ref |-> r,
     checked |-> Default(p.checked, FALSE),
     disabled |-> Default(p.disabled, FALSE),
     errorMessage |-> p.errorMessage,
     helperText |-> p.helperText,
     id |-> p.id,
     image |-> p.image,
     indeterminate |-> Default(p.indeterminate, FALSE),
     label |-> p.label,
     labelDisplay |-> Default(p.labelDisplay, "visible"),
     name |-> p.name,
     onChange |-> p.onChange,
     onClick |-> p.onClick,
     size |-> Default(p.size, "md")]

\* The elements one render of Checkbox returns.
Checkbox(p, r, vr) ==
    IF vr
    THEN <<[type |-> "VRInternalCheckbox", props |-> VRInternalCheckboxProps(p, r)]>>
    ELSE <<[type |-> "InternalCheckbox", props |-> InternalCheckboxProps(p, r)]>>

\* The props a caller may pass (type Props): id and onChange are required.
PropValues ==
    [checked |-> OptBool,
     disabled |-> OptBool,
     errorMessage |-> {Omitted, Some("error")},
     helperText |-> {Omitted, Some("helper")},
     id |-> {Some("id")},
     image |-> {Omitted, Some("image")},
     indeterminate |-> OptBool,
     label |-> {Omitted, Some("label")},
     labelDisplay |-> {Omitted, Some("visible"), Some("hidden")},
     name |-> {Omitted, Some("name")},
     onChange |-> {Some("onChange")},
     onClick |-> {Omitted, Some("onClick")},
     size |-> {Omitted, Some("sm"), Some("md")}]

CheckboxProps ==
    [checked : PropValues.checked,
     disabled : PropValues.disabled,
     errorMessage : PropValues.errorMessage,
     helperText : PropValues.helperText,
     id : PropValues.id,
     image : PropValues.image,
     indeterminate : PropValues.indeterminate,
     label : PropValues.label,
     labelDisplay : PropValues.labelDisplay,
     name : PropValues.name,
     onChange : PropValues.onChange,
     onClick : PropValues.onClick,
     size : PropValues.size]

CBInit ==
    /\ cbProps \in CheckboxProps
    /\ cbRef \in {Omitted, Some("ref")}
    /\ isInVRExperiment \in BOOLEAN
    /\ cbView = Checkbox(cbProps, cbRef, isInVRExperiment)

\* The caller re-renders Checkbox with another value of prop n.
CBSetProp(n, v) ==
    /\ v # cbProps[n]
    /\ cbProps' = [cbProps EXCEPT ![n] = v]
    /\ cbView' = Checkbox(cbProps', cbRef, isInVRExperiment)
    /\ UNCHANGED <<cbRef, isInVRExperiment>>
    /\ UNCHANGED <<ibeVars, dpVars>>

\* The experiment flag changes: re-render.
CBSetExperiment(b) ==
    /\ b # isInVRExperiment
    /\ isInVRExperiment' = b
    /\ cbView' = Checkbox(cbProps, cbRef, b)
    /\ UNCHANGED <<cbProps, cbRef>>
    /\ UNCHANGED <<ibeVars, dpVars>>

(***************************************************************************)
(* Specifications: one per component; the other components stay as         *)
(* mounted.                                                                *)
(***************************************************************************)

\* The DatePicker on the page while another component is exercised.
DPIdle ==
    disableMobileUI = Omitted /\ disabled = Omitted /\ deviceType = "desktop" /\ DPInit

\* The IconButtonEnd on the page while another component is exercised.
IBEIdle ==
    hoverStyle = Omitted /\ accessibilityHidden = Omitted /\ IBEInit

\* The Checkbox on the page while another component is exercised.
CBIdle ==
    /\ cbRef = Omitted
    /\ isInVRExperiment = FALSE
    /\ cbProps = [checked |-> Omitted, disabled |-> Omitted, errorMessage |-> Omitted,
                  helperText |-> Omitted, id |-> Some("id"), image |-> Omitted,
                  indeterminate |-> Omitted, label |-> Some("label"),
                  labelDisplay |-> Omitted, name |-> Omitted,
                  onChange |-> Some("onChange"), onClick |-> Omitted, size |-> Omitted]
    /\ CBInit

IBENext ==
    \/ IBEFocus
    \/ IBEBlur
    \/ IBEMouseEnter
    \/ IBEMouseLeave
    \/ IBETap
    \/ \E k \in Keys : IBEKeyDown(k)
    \/ IBEKeyDefault

DPNext ==
    \/ DPFocusInput
    \/ DPTapDismiss
    \/ DPSelectInSheet
    \/ DPAnimationEnd
    \/ DPSelectInPopover
    \/ DPClosePopover
    \/ \E d \in {"desktop", "mobile"} : DPSetDeviceType(d)
    \/ \E v \in OptBool : DPSetDisableMobileUI(v)
    \/ \E v \in OptBool : DPSetDisabled(v)

CBNext ==
    \/ \E n \in DOMAIN PropValues : \E v \in PropValues[n] : CBSetProp(n, v)
    \/ \E b \in BOOLEAN : CBSetExperiment(b)

InitIconButtonEnd == IBEInit /\ DPIdle /\ CBIdle

InitDatePicker == DPInit /\ IBEIdle /\ CBIdle

InitCheckbox == CBInit /\ IBEIdle /\ DPIdle

SpecIconButtonEnd == InitIconButtonEnd /\ [][IBENext]_vars

SpecDatePicker == InitDatePicker /\ [][DPNext]_vars

\* The sheet's "out" animation, once started, ends.
FairSpecDatePicker == SpecDatePicker /\ WF_vars(DPAnimationEnd)

SpecCheckbox == InitCheckbox /\ [][CBNext]_vars

(***************************************************************************)
(* IconButtonEnd: properties.                                              *)
(***************************************************************************)

\* C1: each Enter key-down, each Space key-down and each pointer tap on the
\* tap area invokes the caller's onClick exactly once for that event.
C1_OneActivationPerEvent ==
    /\ (ibeEvent = "keydown" /\ keyCode \in {ENTER, SPACE}) => onClickCalls = 1
    /\ ibeEvent = "tap" => onClickCalls = 1

C1_Witness ==
    ibeEvent = "keydown" /\ ibePc = "keydown" /\ keyCode = SPACE /\ onClickCalls = 1

\* C2: a Tab key-down never invokes onClick and never has preventDefault
\* called on its event, whether or not the control is focused or hidden, so
\* the focus traversal takes place: once the key's default action is over
\* the tap area no longer holds focus.
C2_TabPassesThrough ==
    keyCode = TAB =>
        /\ onClickCalls = 0
        /\ ~defaultPrevented
        /\ ibePc = "idle" => ~domFocus

C2_Witness ==
    /\ keyCode = TAB
    /\ ibePc = "idle"
    /\ ibeEvent = "blur"
    /\ Truthy(accessibilityHidden)
    /\ onClickCalls = 0

\* C3: on key-down the default action is prevented for every key other than
\* Tab, Enter and Space included, and onClick is invoked only for Enter or
\* Space: any other key has its default prevented without activating.
C3_KeyDownContract ==
    keyCode # 0 =>
        /\ defaultPrevented <=> keyCode # TAB
        /\ onClickCalls > 0 => keyCode \in {ENTER, SPACE}
        /\ keyCode \notin {ENTER, SPACE, TAB} => (defaultPrevented /\ onClickCalls = 0)

C3_Witness ==
    keyCode \in OtherKeys /\ ibePc = "idle" /\ defaultPrevented /\ onClickCalls = 0

\* C4: one physical user action never produces two activations: an Enter or
\* Space press, once its key-down and the default action after it are over,
\* has invoked onClick exactly once, and no key-press (the event TapArea
\* turns into a second tap) was dispatched for it.
C4_NoDoubleActivation ==
    /\ onClickCalls <= 1
    /\ (ibePc = "idle" /\ keyCode \in {ENTER, SPACE}) =>
           (onClickCalls = 1 /\ ibeEvent = "keydown")

C4_Witness ==
    /\ ibePc = "idle"
    /\ keyCode = ENTER
    /\ ibeEvent = "keydown"
    /\ defaultPrevented
    /\ onClickCalls = 1

(***************************************************************************)
(* DatePicker: properties.                                                 *)
(***************************************************************************)

\* C5: on a mobile device type with disableMobileUI=false, once the input
\* field has received focus the sheet is rendered, whether the state was
\* Closed or already OpenAsSheet when the focus came.
C5_FocusOpensSheet ==
    (dpEvent = "focus" /\ deviceType = "mobile" /\ disableMobileUI = Some(FALSE)) =>
        (showMobileCalendar /\ SheetRendered(dpView))

C5_Witness ==
    /\ dpEvent = "focus"
    /\ deviceType = "mobile"
    /\ disableMobileUI = Some(FALSE)
    /\ showMobileCalendar
    /\ SheetRendered(dpView)
    /\ sheetAnimation = "in"

\* The DatePicker is in its mobile presentation and the last event was a
\* date selection in the sheet or a tap on the sheet's dismiss button.
DismissalRequested ==
    /\ MobileBranch(deviceType, disableMobileUI)
    /\ SheetRendered(dpView)
    /\ dpEvent \in {"sheetSelect", "dismiss"}

\* The state Closed of the mobile presentation.
Closed == ~showMobileCalendar /\ ~SheetRendered(dpView)

\* C6: on a mobile device type with disableMobileUI=false and the sheet open,
\* selecting a date in the sheet's calendar or tapping the dismiss button
\* starts the sheet's dismissal at once and leads to the state Closed
\* (showMobileCalendar=false, no sheet rendered), unless the DatePicker
\* leaves the mobile presentation first.
C6_DismissalCloses ==
    /\ [][DismissalRequested' => sheetAnimation' = "out"]_vars
    /\ DismissalRequested ~> (Closed \/ ~MobileBranch(deviceType, disableMobileUI))

C6_Witness ==
    /\ dpEvent = "animationEnd"
    /\ MobileBranch(deviceType, disableMobileUI)
    /\ Closed

\* C7: on a non-mobile device type, or with disableMobileUI=true, no sheet is
\* rendered, whatever the value of showMobileCalendar.
C7_NoSheetOutsideMobile ==
    (deviceType # "mobile" \/ disableMobileUI = Some(TRUE)) => ~SheetRendered(dpView)

C7_Witness ==
    /\ deviceType = "mobile"
    /\ disableMobileUI = Some(TRUE)
    /\ showMobileCalendar
    /\ dpEvent = "focus"
    /\ ~SheetRendered(dpView)

\* C8: the mobile adaptation is disabled by default: the sheet is rendered
\* only when the caller passes disableMobileUI=false explicitly, never when
\* disableMobileUI is omitted.
C8_MobileUIDisabledByDefault ==
    SheetRendered(dpView) => disableMobileUI = Some(FALSE)

\* C9: while disabled is true no calendar accepts a selection, in the
\* field's popover or in the sheet, and no selection is delivered to the
\* caller's onChange.
C9_DisabledIsInert ==
    Truthy(disabled) =>
        /\ ~CalendarSelectable(dpView.field, popoverOpen)
        /\ SheetRendered(dpView) => ~CalendarSelectable(dpView.sheet[1], FALSE)
        /\ onChangeCalls = 0

\* The second half of C9 alone: no selection is delivered while disabled.
C9_NoDeliveryWhileDisabled ==
    Truthy(disabled) => onChangeCalls = 0

(***************************************************************************)
(* Checkbox: properties.                                                   *)
(***************************************************************************)

CheckboxPropNames ==
    {"ref", "checked", "disabled", "errorMessage", "helperText", "id", "image",
     "indeterminate", "label", "labelDisplay", "name", "onChange", "onClick", "size"}

\* The value an optional boolean prop has at the internal implementation.
FalseWhenOmitted(given, got) ==
    /\ given = Omitted => got = FALSE
    /\ given # Omitted => got = given[1]

\* C10: one render of Checkbox returns exactly one internal implementation,
\* InternalCheckbox when isInVRExperiment is false and VRInternalCheckbox
\* when it is true; the two receive the same prop set (the fourteen props),
\* with checked, disabled and indeterminate equal to the caller's input and
\* false when omitted.
C10_CheckboxVariant ==
    /\ Len(cbView) = 1
    /\ cbView[1].type = (IF isInVRExperiment THEN "VRInternalCheckbox" ELSE "InternalCheckbox")
    /\ DOMAIN cbView[1].props = CheckboxPropNames
    /\ FalseWhenOmitted(cbProps.checked, cbView[1].props.checked)
    /\ FalseWhenOmitted(cbProps.disabled, cbView[1].props.disabled)
    /\ FalseWhenOmitted(cbProps.indeterminate, cbView[1].props.indeterminate)
    /\ Checkbox(cbProps, cbRef, TRUE)[1].props = Checkbox(cbProps, cbRef, FALSE)[1].props

C10_Witness ==
    /\ isInVRExperiment
    /\ cbView[1].type = "VRInternalCheckbox"
    /\ cbProps.checked = Omitted
    /\ cbView[1].props.checked = FALSE
    /\ cbProps.indeterminate = Some(TRUE)
    /\ cbView[1].props.indeterminate = TRUE

(***************************************************************************)
(* IconButtonEnd: accessibility and hover properties.                      *)
(***************************************************************************)

\* C11: with accessibilityHidden true the tap target's tab index is negative
\* (-1) and its container is marked aria-hidden, in every state: focus,
\* blur, hover and key events never change this.
C11_HiddenIsUnreachable ==
    accessibilityHidden = Some(TRUE) =>
        (ibeView.tabIndex = -1 /\ ibeView.ariaHidden = Some(TRUE))

C11_Witness ==
    /\ accessibilityHidden = Some(TRUE)
    /\ domFocus
    /\ pointerInside
    /\ keyCode = ENTER
    /\ ibeView.tabIndex < 0

\* C12: the Pog background is lightGray only when hoverStyle is 'default'
\* and the pointer is inside the element or the element holds focus; with
\* hoverStyle 'none', or neither hovered nor focused, it is transparent.
C12_BackgroundOnlyWhenHoveredOrFocused ==
    /\ ibeView.bgColor \in {"lightGray", "transparent"}
    /\ ibeView.bgColor = "lightGray" =>
           (HoverStyle(hoverStyle) = "default" /\ (pointerInside \/ domFocus))

C12_Witness ==
    /\ hoverStyle = Some("none")
    /\ pointerInside
    /\ domFocus
    /\ focused
    /\ ibeView.bgColor = "transparent"

\* C14: with hoverStyle 'default' the Pog background is lightGray in every
\* state where the pointer is inside the element or the element holds
\* focus, after any interleaving of focus, blur, pointer-enter and
\* pointer-leave.
C14_BackgroundWheneverHoveredOrFocused ==
    (HoverStyle(hoverStyle) = "default" /\ (pointerInside \/ domFocus)) =>
        ibeView.bgColor = "lightGray"

(***************************************************************************)
(* DatePicker: presentation and state-frame properties.                    *)
(***************************************************************************)

\* C13: the sheet's calendar and the field's own popover calendar are never
\* shown together: in the mobile branch the field is input-only, in the
\* default branch no sheet is rendered.
C13_SheetAndPopoverExclusive ==
    /\ ~(SheetRendered(dpView) /\ CalendarShown(dpView.field, popoverOpen))
    /\ SheetRendered(dpView) => (dpView.field.inputOnly /\ CalendarShown(dpView.sheet[1], FALSE))
    /\ CalendarShown(dpView.field, popoverOpen) => dpView.branch = "desktop"

C13_Witness ==
    /\ SheetRendered(dpView)
    /\ dpEvent = "focus"
    /\ dpView.field.inputOnly
    /\ ~CalendarShown(dpView.field, popoverOpen)

\* C15: showMobileCalendar changes only on an input focus while the mobile
\* branch is rendered (to true) and on the sheet's onDismiss (to false); a
\* change of device type or of disableMobileUI and a focus in the default
\* branch leave it unchanged; so the sheet is rendered only while
\* showMobileCalendar records a mobile focus with no onDismiss since.
C15_ShowMobileCalendarFrame ==
    /\ [][showMobileCalendar' # showMobileCalendar =>
             \/ dpEvent' = "focus" /\ dpView.branch = "mobile" /\ showMobileCalendar'
             \/ dpEvent' = "animationEnd" /\ ~showMobileCalendar']_vars
    /\ [][(dpEvent' \in {"deviceType", "props"} \/ dpView.branch = "desktop") =>
             showMobileCalendar' = showMobileCalendar]_vars
    /\ [](dpEvent = "animationEnd" => ~showMobileCalendar)
    /\ [](SheetRendered(dpView) => showMobileCalendar)

C15_Witness ==
    /\ deviceType = "desktop"
    /\ dpView.branch = "desktop"
    /\ dpEvent = "focus"
    /\ popoverOpen
    /\ showMobileCalendar

====
